---- MODULE Spec2Model ----
(***************************************************************************)
(* A model of src/datatypes/datetime.ts: the value types LocalDateTime,    *)
(* LocalTime, LocalDate and Duration, their constructors and their string  *)
(* forms.  One value object is alive at a time (obj); call records the     *)
(* constructor call that made it (or the error it threw), ret the result   *)
(* of the last method called on it.  heap holds the JavaScript Date        *)
(* objects (each one's time value, in epoch milliseconds); a LocalDateTime *)
(* holds a reference into it, and held is the set of Date references that  *)
(* code outside the value object (the codecs, a caller) still holds.       *)
(***************************************************************************)
EXTENDS Integers, Sequences, FiniteSets, TLC

VARIABLES obj, call, ret, heap, held

vars == <<obj, call, ret, heap, held>>

(***************************************************************************)
(* Bounds of the model.                                                    *)
(***************************************************************************)
MaxMonths == 14

MaxDays == 2

MaxDates == 2

MaxOrdSpan == 3

(***************************************************************************)
(* JavaScript number and string primitives used by the source.             *)
(***************************************************************************)
Abs(n) == IF n < 0 THEN -n ELSE n

\* Math.trunc(a / b) for integers a and b > 0
TruncDiv(a, b) == IF a >= 0 THEN a \div b ELSE -((-a) \div b)

\* a % b of JavaScript: the remainder has the sign of the dividend
JsRem(a, b) == a - b * TruncDiv(a, b)

DigitChar == <<"0", "1", "2", "3", "4", "5", "6", "7", "8", "9">>

RECURSIVE Digits(_)
\* the decimal digits of n >= 0, most significant first
Digits(n) == IF n < 10 THEN <<n>> ELSE Append(Digits(n \div 10), n % 10)

RECURSIVE DigitsToString(_)
DigitsToString(ds) ==
    IF ds = <<>> THEN ""
    ELSE DigitChar[Head(ds) + 1] \o DigitsToString(Tail(ds))

\* Number.prototype.toString() of an integer
NumberToString(n) ==
    IF n < 0 THEN "-" \o DigitsToString(Digits(-n)) ELSE DigitsToString(Digits(n))

RECURSIVE PadStartDigits(_, _)
\* String.prototype.padStart(targetLength, "0") on a string of digits
PadStartDigits(ds, targetLength) ==
    IF Len(ds) >= targetLength THEN ds
    ELSE PadStartDigits(<<0>> \o ds, targetLength)

\* n.toString().padStart(targetLength, "0") for n >= 0
PadStart(n, targetLength) == DigitsToString(PadStartDigits(Digits(n), targetLength))

RECURSIVE StripTrailingZeros(_)
\* .replace(/(?:0+)$/, "") on a string that ends with the digits ds
StripTrailingZeros(ds) ==
    IF ds # <<>> /\ ds[Len(ds)] = 0
    THEN StripTrailingZeros(SubSeq(ds, 1, Len(ds) - 1))
    ELSE ds

\* args[i], or the parameter's default when the call passes fewer arguments
Arg(args, i, default) == IF i <= Len(args) THEN args[i] ELSE default

NoObject == [type |-> "None"]

Returned(value) == [threw |-> FALSE, error |-> "", value |-> value]

Thrown(message) == [threw |-> TRUE, error |-> message, value |-> NoObject]

(***************************************************************************)
(* LocalTime                                                               *)
(***************************************************************************)
\* LocalTime_constructor with the minutes check off by one (minutes > 60)
LocalTime_constructor_Minutes60(args) ==
    LET hours        == args[1]
        minutes      == Arg(args, 2, 0)
        seconds      == Arg(args, 3, 0)
        milliseconds == Arg(args, 4, 0)
    IN  IF hours < 0 \/ hours > 23
        THEN Thrown("invalid number of hours " \o NumberToString(hours)
                    \o ": expected a value in 0-23 range")
        ELSE IF minutes < 0 \/ minutes > 60
        THEN Thrown("invalid number of minutes " \o NumberToString(minutes)
                    \o ": expected a value in 0-59 range")
        ELSE IF seconds < 0 \/ seconds > 59
        THEN Thrown("invalid number of seconds " \o NumberToString(seconds)
                    \o ": expected a value in 0-59 range")
        ELSE IF milliseconds < 0 \/ milliseconds > 999
        THEN Thrown("invalid number of milliseconds " \o NumberToString(milliseconds)
                    \o ": expected a value in 0-999 range")
        ELSE Returned([type          |-> "LocalTime",
                       _hours        |-> hours,
                       _minutes      |-> minutes,
                       _seconds      |-> seconds,
                       _milliseconds |-> milliseconds])

LocalTime_constructor(args) ==
    LET hours        == args[1]
        minutes      == Arg(args, 2, 0)
        seconds      == Arg(args, 3, 0)
        milliseconds == Arg(args, 4, 0)
    IN  IF hours < 0 \/ hours > 23
        THEN Thrown("invalid number of hours " \o NumberToString(hours)
                    \o ": expected a value in 0-23 range")
        ELSE IF minutes < 0 \/ minutes > 59
        THEN Thrown("invalid number of minutes " \o NumberToString(minutes)
                    \o ": expected a value in 0-59 range")
        ELSE IF seconds < 0 \/ seconds > 59
        THEN Thrown("invalid number of seconds " \o NumberToString(seconds)
                    \o ": expected a value in 0-59 range")
        ELSE IF milliseconds < 0 \/ milliseconds > 999
        THEN Thrown("invalid number of milliseconds " \o NumberToString(milliseconds)
                    \o ": expected a value in 0-999 range")
        ELSE Returned([type          |-> "LocalTime",
                       _hours        |-> hours,
                       _minutes      |-> minutes,
                       _seconds      |-> seconds,
                       _milliseconds |-> milliseconds])

LocalTime_getHours(this) == this._hours

LocalTime_getMinutes(this) == this._minutes

LocalTime_getSeconds(this) == this._seconds

LocalTime_getMilliseconds(this) == this._milliseconds

LocalTime_toString(this) ==
    LET hh   == PadStart(this._hours, 2)
        mm   == PadStart(this._minutes, 2)
        ss   == PadStart(this._seconds, 2)
        repr == hh \o ":" \o mm \o ":" \o ss
    IN  IF this._milliseconds # 0
        THEN repr \o "." \o DigitsToString(StripTrailingZeros(Digits(this._milliseconds)))
        ELSE repr

LocalTime_valueOf(this) == LocalTime_toString(this)

LocalTime_inspect(this) == "LocalTime [ " \o LocalTime_toString(this) \o " ]"

(***************************************************************************)
(* ./dateutil (imported at line 21; not among the source files): the       *)
(* proleptic Gregorian calendar arithmetic, months numbered from 1.        *)
(***************************************************************************)
isLeap(year) == year % 4 = 0 /\ (year % 100 # 0 \/ year % 400 = 0)

DAYS_IN_MONTH == <<31, 28, 31, 30, 31, 30, 31, 31, 30, 31, 30, 31>>

DAYS_BEFORE_MONTH == <<0, 31, 59, 90, 120, 151, 181, 212, 243, 273, 304, 334>>

daysInMonth(year, month) ==
    IF month = 2 /\ isLeap(year) THEN 29 ELSE DAYS_IN_MONTH[month]

daysBeforeYear(year) ==
    LET y == year - 1
    IN  y * 365 + (y \div 4) - (y \div 100) + (y \div 400)

daysBeforeMonth(year, month) ==
    DAYS_BEFORE_MONTH[month] + (IF month > 2 /\ isLeap(year) THEN 1 ELSE 0)

ymd2ord(year, month, day) ==
    daysBeforeYear(year) + daysBeforeMonth(year, month) + day

ord2ymd(n) ==
    LET n0   == n - 1
        n400 == n0 \div 146097
        r400 == n0 % 146097
        n100 == r400 \div 36524
        r100 == r400 % 36524
        n4   == r100 \div 1461
        r4   == r100 % 1461
        n1   == r4 \div 365
        r1   == r4 % 365
        year == n400 * 400 + 1 + n100 * 100 + n4 * 4 + n1
    IN  IF n1 = 4 \/ n100 = 4
        THEN <<year - 1, 12, 31>>
        ELSE LET leapyear == n1 = 3 /\ (n4 # 24 \/ n100 = 3)
                 guess    == (r1 + 50) \div 32
                 before   == DAYS_BEFORE_MONTH[guess]
                             + (IF guess > 2 /\ leapyear THEN 1 ELSE 0)
                 month    == IF before > r1 THEN guess - 1 ELSE guess
                 preceding == DAYS_BEFORE_MONTH[month]
                              + (IF month > 2 /\ leapyear THEN 1 ELSE 0)
             IN  <<year, month, r1 - preceding + 1>>

(***************************************************************************)
(* LocalDate                                                               *)
(***************************************************************************)
\* LocalDate_constructor with the day check off by one (day >= maxDays)
LocalDate_constructor_DayOffByOne(args) ==
    LET year       == args[1]
        monthIndex == Arg(args, 2, 0)
        day        == Arg(args, 3, 1)
    IN  IF monthIndex < 0 \/ monthIndex >= 12
        THEN Thrown("invalid monthIndex " \o NumberToString(monthIndex)
                    \o ": expected a value in 0-11 range")
        ELSE LET maxDays == daysInMonth(year, monthIndex + 1)
             IN  IF monthIndex < 0 \/ monthIndex >= 12 \/ day < 1 \/ day >= maxDays
                 THEN Thrown("invalid number of days " \o NumberToString(day)
                             \o ": expected a value in 1.." \o NumberToString(maxDays)
                             \o " range")
                 ELSE Returned([type   |-> "LocalDate",
                                _year  |-> year,
                                _month |-> monthIndex,
                                _day   |-> day])

LocalDate_constructor(args) ==
    LET year       == args[1]
        monthIndex == Arg(args, 2, 0)
        day        == Arg(args, 3, 1)
    IN  IF monthIndex < 0 \/ monthIndex >= 12
        THEN Thrown("invalid monthIndex " \o NumberToString(monthIndex)
                    \o ": expected a value in 0-11 range")
        ELSE LET maxDays == daysInMonth(year, monthIndex + 1)
             IN  IF monthIndex < 0 \/ monthIndex >= 12 \/ day < 1 \/ day > maxDays
                 THEN Thrown("invalid number of days " \o NumberToString(day)
                             \o ": expected a value in 1.." \o NumberToString(maxDays)
                             \o " range")
                 ELSE Returned([type   |-> "LocalDate",
                                _year  |-> year,
                                _month |-> monthIndex,
                                _day   |-> day])

LocalDate_getFullYear(this) == this._year

LocalDate_getMonth(this) == this._month

LocalDate_getDate(this) == this._day

LocalDate_toString(this) ==
    LET mm == PadStart(this._month + 1, 2)
        dd == PadStart(this._day, 2)
    IN  NumberToString(this._year) \o "-" \o mm \o "-" \o dd

LocalDate_valueOf(this) == LocalDate_toString(this)

LocalDate_inspect(this) == "LocalDate [ " \o LocalDate_toString(this) \o " ]"

LocalDate_toOrdinal(this) == ymd2ord(this._year, this._month + 1, this._day)

LocalDate_fromOrdinal(ord) ==
    LET ymd == ord2ymd(ord)
    IN  LocalDate_constructor(<<ymd[1], ymd[2] - 1, ymd[3]>>)

(***************************************************************************)
(* Duration                                                                *)
(***************************************************************************)
Duration_constructor(args) ==
    Returned([type          |-> "Duration",
              _months       |-> Arg(args, 1, 0),
              _days         |-> Arg(args, 2, 0),
              _milliseconds |-> Arg(args, 3, 0)])

Duration_getMonths(this) == this._months

Duration_getDays(this) == this._days

Duration_getMilliseconds(this) == this._milliseconds

UnitSuffix_ByMagnitude(n) == IF Abs(n) = 1 THEN "" ELSE "s"

\* the "s" of `year${year === 1 ? "" : "s"}` (and of month, day)
UnitSuffix(n) == IF n = 1 THEN "" ELSE "s"

UnitEntry_PlusIgnoresBefore(kind, name, n, isFirst, isBefore) ==
    [kind |-> kind,
     text |-> (IF isFirst THEN "" ELSE " ")
              \o (IF ~isFirst /\ n > 0 THEN "+" ELSE "")
              \o NumberToString(n) \o " " \o name \o UnitSuffix(n)]

\* one buf.push of a calendar unit: separator, "+" marker, number, unit name
UnitEntry(kind, name, n, isFirst, isBefore) ==
    [kind |-> kind,
     text |-> (IF isFirst THEN "" ELSE " ")
              \o (IF isBefore /\ n > 0 THEN "+" ELSE "")
              \o NumberToString(n) \o " " \o name \o UnitSuffix(n)]

\* whether the clock segment is pushed (the condition at line 353)
EmitsClock_NoFirst(isFirst, hour, min, sec, fsec) ==
    hour # 0 \/ min # 0 \/ sec # 0 \/ fsec # 0

EmitsClock(isFirst, hour, min, sec, fsec) ==
    isFirst \/ hour # 0 \/ min # 0 \/ sec # 0 \/ fsec # 0

\* the buf.push of the clock segment
ClockEntry(hour, min, sec, fsec, isFirst, isBefore) ==
    LET neg == hour < 0 \/ min < 0 \/ sec < 0 \/ fsec < 0
    IN  [kind |-> "clock",
         text |-> (IF isFirst THEN "" ELSE " ")
                  \o (IF neg THEN "-" ELSE IF isBefore THEN "+" ELSE "")
                  \o PadStart(Abs(hour), 2) \o ":"
                  \o PadStart(Abs(min), 2) \o ":"
                  \o PadStart(Abs(sec), 2)]

\* the buf.push of the fraction: Math.round(|fsec| * 1000) padded to 6 digits
FractionEntry(fsec) ==
    [kind |-> "frac",
     text |-> "." \o DigitsToString(
                  StripTrailingZeros(PadStartDigits(Digits(Abs(fsec) * 1000), 6)))]

\* the entries Duration.toString() pushes to buf, in order
Duration_buf(this) ==
    LET year  == TruncDiv(this._months, 12)
        mon   == JsRem(this._months, 12)
        hour  == TruncDiv(this._milliseconds, 3600000)
        time1 == this._milliseconds - hour * 3600000
        min   == TruncDiv(time1, 60000)
        time2 == time1 - min * 60000
        sec   == TruncDiv(time2, 1000)
        fsec  == time2 - sec * 1000
        first1  == TRUE
        before1 == FALSE
        buf1    == <<>>
        buf2    == IF year # 0
                   THEN Append(buf1, UnitEntry("year", "year", year, first1, before1))
                   ELSE buf1
        first2  == IF year # 0 THEN FALSE ELSE first1
        before2 == IF year # 0 THEN year < 0 ELSE before1
        buf3    == IF mon # 0
                   THEN Append(buf2, UnitEntry("month", "month", mon, first2, before2))
                   ELSE buf2
        first3  == IF mon # 0 THEN FALSE ELSE first2
        before3 == IF mon # 0 THEN mon < 0 ELSE before2
        buf4    == IF this._days # 0
                   THEN Append(buf3, UnitEntry("day", "day", this._days, first3, before3))
                   ELSE buf3
        first4  == IF this._days # 0 THEN FALSE ELSE first3
        before4 == IF this._days # 0 THEN this._days < 0 ELSE before3
        buf5    == IF EmitsClock(first4, hour, min, sec, fsec)
                   THEN LET clock == Append(buf4, ClockEntry(hour, min, sec, fsec,
                                                             first4, before4))
                        IN  IF Abs(fsec) # 0
                            THEN Append(clock, FractionEntry(fsec))
                            ELSE clock
                   ELSE buf4
    IN  buf5

RECURSIVE JoinText(_)
\* buf.join("")
JoinText(buf) == IF buf = <<>> THEN "" ELSE Head(buf).text \o JoinText(Tail(buf))

Duration_toString(this) == JoinText(Duration_buf(this))

Duration_inspect(this) == "Duration [ " \o Duration_toString(this) \o " ]"

(***************************************************************************)
(* The JavaScript Date primitives LocalDateTime is built on (ECMAScript    *)
(* "Date Objects": Day, DayFromYear, YearFromTime, MonthFromTime, MakeDay, *)
(* MakeTime, MakeDate, Date.UTC, toISOString, toUTCString).  A time value  *)
(* t, the milliseconds since 1970-01-01T00:00:00Z, is larger than the      *)
(* integers of the model checker: it is written as the record of Day(t)    *)
(* and TimeWithinDay(t), which determines it (t = day * 86400000 + ms with *)
(* 0 <= ms < 86400000).  The inputs of the model stay far inside the range *)
(* TimeClip accepts.                                                       *)
(***************************************************************************)
TimeValue(day, ms) ==
    [day |-> day + (ms \div 86400000), ms |-> ms % 86400000]

Day(t) == t.day

TimeWithinDay(t) == t.ms

DayFromYear(y) ==
    365 * (y - 1970) + ((y - 1969) \div 4) - ((y - 1901) \div 100)
    + ((y - 1601) \div 400)

YearFromTime(t) ==
    LET est == 1970 + (Day(t) * 400) \div 146097
    IN  CHOOSE y \in (est - 2)..(est + 2) :
            DayFromYear(y) <= Day(t) /\ Day(t) < DayFromYear(y + 1)

DaysBeforeMonthIndex(y, m) ==
    DAYS_BEFORE_MONTH[m + 1] + (IF m >= 2 /\ isLeap(y) THEN 1 ELSE 0)

DayWithinYear(t) == Day(t) - DayFromYear(YearFromTime(t))

MonthFromTime(t) ==
    LET y == YearFromTime(t)
    IN  CHOOSE m \in 0..11 :
            /\ DaysBeforeMonthIndex(y, m) <= DayWithinYear(t)
            /\ (m = 11 \/ DayWithinYear(t) < DaysBeforeMonthIndex(y, m + 1))

DateFromTime(t) ==
    DayWithinYear(t) - DaysBeforeMonthIndex(YearFromTime(t), MonthFromTime(t)) + 1

WeekDay(t) == (Day(t) + 4) % 7

HourFromTime(t) == (TimeWithinDay(t) \div 3600000) % 24

MinFromTime(t) == (TimeWithinDay(t) \div 60000) % 60

SecFromTime(t) == (TimeWithinDay(t) \div 1000) % 60

MsFromTime(t) == TimeWithinDay(t) % 1000

MakeTime(hour, min, sec, ms) == hour * 3600000 + min * 60000 + sec * 1000 + ms

MakeDay(year, month, date) ==
    LET ym == year + (month \div 12)
        mn == month % 12
    IN  DayFromYear(ym) + DaysBeforeMonthIndex(ym, mn) + date - 1

MakeDate(day, time) == TimeValue(day, time)

\* years 0..99 mean 1900..1999, in Date.UTC and in new Date(y, m, ...)
FullYear(year) == IF 0 <= year /\ year <= 99 THEN 1900 + year ELSE year

Date_UTC(year, month, day, hour, minute, second, millisecond) ==
    MakeDate(MakeDay(FullYear(year), month, day),
             MakeTime(hour, minute, second, millisecond))

\* new Date(y, m, d, h, mi, s, ms): the fields read as local time, for a host
\* whose zone is tzOffset milliseconds ahead of UTC
Date_local(year, month, day, hour, minute, second, millisecond, tzOffset) ==
    MakeDate(MakeDay(FullYear(year), month, day),
             MakeTime(hour, minute, second, millisecond) - tzOffset)

DAY_NAMES == <<"Sun", "Mon", "Tue", "Wed", "Thu", "Fri", "Sat">>

MONTH_NAMES == <<"Jan", "Feb", "Mar", "Apr", "May", "Jun",
                 "Jul", "Aug", "Sep", "Oct", "Nov", "Dec">>

\* Date.prototype.toISOString() without its last character, the "Z"
Date_ISOBody(t) ==
    LET y  == YearFromTime(t)
        yy == IF 0 <= y /\ y <= 9999 THEN PadStart(y, 4)
              ELSE (IF y < 0 THEN "-" ELSE "+") \o PadStart(Abs(y), 6)
    IN  yy \o "-" \o PadStart(MonthFromTime(t) + 1, 2)
           \o "-" \o PadStart(DateFromTime(t), 2)
           \o "T" \o PadStart(HourFromTime(t), 2)
           \o ":" \o PadStart(MinFromTime(t), 2)
           \o ":" \o PadStart(SecFromTime(t), 2)
           \o "." \o PadStart(MsFromTime(t), 3)

Date_toISOString(t) == Date_ISOBody(t) \o "Z"

\* Date.prototype.toUTCString() without its last four characters, " GMT"
Date_UTCBody(t) ==
    LET y == YearFromTime(t)
    IN  DAY_NAMES[WeekDay(t) + 1] \o ", " \o PadStart(DateFromTime(t), 2)
        \o " " \o MONTH_NAMES[MonthFromTime(t) + 1]
        \o " " \o (IF y < 0 THEN "-" ELSE "") \o PadStart(Abs(y), 4)
        \o " " \o PadStart(HourFromTime(t), 2)
        \o ":" \o PadStart(MinFromTime(t), 2)
        \o ":" \o PadStart(SecFromTime(t), 2)

Date_toUTCString(t) == Date_UTCBody(t) \o " GMT"

(***************************************************************************)
(* LocalDateTime.  The constructor is called either with one to seven      *)
(* numbers (arguments.private = FALSE, arguments.fields) or, on the        *)
(* privileged path, with a Date as year and DATE_PRIVATE as month          *)
(* (arguments.private = TRUE, arguments.date a reference into the heap).   *)
(* It returns the new object and the heap after the call.                  *)
(***************************************************************************)
DATE_PRIVATE == "edgedb.datetime"

FieldArguments(fields) == [private |-> FALSE, date |-> 0, fields |-> fields]

PrivateArguments(date) == [private |-> TRUE, date |-> date, fields |-> <<>>]

LocalDateTime_constructor(arguments, h) ==
    IF arguments.private
    THEN [this |-> [type |-> "LocalDateTime", _date |-> arguments.date],
          heap |-> h]
    ELSE LET a           == arguments.fields
             year        == a[1]
             month       == Arg(a, 2, 0)
             day         == Arg(a, 3, 0)
             hour        == Arg(a, 4, 0)
             minute      == Arg(a, 5, 0)
             second      == Arg(a, 6, 0)
             millisecond == Arg(a, 7, 0)
         IN  [this |-> [type |-> "LocalDateTime", _date |-> Len(h) + 1],
              heap |-> Append(h, Date_UTC(year, month, day, hour, minute,
                                          second, millisecond))]

LocalDateTime_getTime(this, h) == h[this._date]

LocalDateTime_getDate(this, h) == DateFromTime(h[this._date])

LocalDateTime_getDay(this, h) == WeekDay(h[this._date])

LocalDateTime_getFullYear(this, h) == YearFromTime(h[this._date])

LocalDateTime_getHours(this, h) == HourFromTime(h[this._date])

LocalDateTime_getMilliseconds(this, h) == MsFromTime(h[this._date])

LocalDateTime_getMinutes(this, h) == MinFromTime(h[this._date])

LocalDateTime_getMonth(this, h) == MonthFromTime(h[this._date])

LocalDateTime_getSeconds(this, h) == SecFromTime(h[this._date])

LocalDateTime_valueOf(this, h) == h[this._date]

\* the ISO string always ends with "Z", so the check before slice(0, -1)
\* never throws
LocalDateTime_toISOString(this, h) == Date_ISOBody(h[this._date])

LocalDateTime_toJSON(this, h) == LocalDateTime_toISOString(this, h)

\* the UTC string always ends with " GMT", so the check before
\* slice(0, -4) never throws
LocalDateTime_toString(this, h) == Date_UTCBody(h[this._date])

LocalDateTime_toDateString(this, h) == LocalDateTime_toString(this, h)

LocalDateTime_inspect(this, h) ==
    "LocalDateTime [ " \o LocalDateTime_toISOString(this, h) \o " ]"

\* the time value of the Date toDateTime() returns
LocalDateTime_toDateTime(this, h, tzOffset) ==
    Date_local(LocalDateTime_getFullYear(this, h),
               LocalDateTime_getMonth(this, h),
               LocalDateTime_getDate(this, h),
               LocalDateTime_getHours(this, h),
               LocalDateTime_getMinutes(this, h),
               LocalDateTime_getSeconds(this, h),
               LocalDateTime_getMilliseconds(this, h),
               tzOffset)

(***************************************************************************)
(* The calls the model makes.                                              *)
(***************************************************************************)
\* the sequences of 1 to 4 arguments drawn from A1, A2, A3, A4 in this order
Calls4(A1, A2, A3, A4) ==
    {<<a>> : a \in A1}
    \cup (A1 \X A2)
    \cup (A1 \X A2 \X A3)
    \cup (A1 \X A2 \X A3 \X A4)

LocalTimeArgs ==
    Calls4({-1, 0, 9, 23, 24}, {-1, 0, 5, 59, 60}, {-1, 0, 30, 59, 60},
           {-1, 0, 5, 50, 500, 120, 999, 1000})

LocalDateYears == {1900, 2000, 2019, 2020}

LocalDateArgs ==
    {<<y>> : y \in LocalDateYears}
    \cup (LocalDateYears \X (-1..12))
    \cup (LocalDateYears \X (-1..12) \X (0..32))

\* ordinals around the end of February and the end of the year, 2019-2020
OrdinalArgs ==
    UNION {(o - MaxOrdSpan)..(o + MaxOrdSpan) :
              o \in {ymd2ord(2019, 3, 1), ymd2ord(2020, 1, 1),
                     ymd2ord(2020, 3, 1), ymd2ord(2021, 1, 1)}}

DurationMilliseconds ==
    {0, 1, 5, 50, 500, 1000, 59999, 60000, 3600000, 3661500, 3661005, 360000000}

DurationArgs ==
    {<<>>}
    \cup {<<m>> : m \in -MaxMonths..MaxMonths}
    \cup ((-MaxMonths..MaxMonths) \X (-MaxDays..MaxDays))
    \cup ((-MaxMonths..MaxMonths) \X (-MaxDays..MaxDays)
          \X (DurationMilliseconds \cup {-ms : ms \in DurationMilliseconds}))

LocalDateTimeYears == {99, 2019, 2020}

LocalDateTimeArgs ==
    {<<y>> : y \in LocalDateTimeYears}
    \cup (LocalDateTimeYears \X {0, 1, 12})
    \cup (LocalDateTimeYears \X {0, 1, 12} \X {0, 1, 32})
    \cup (LocalDateTimeYears \X {0, 1, 12} \X {0, 1, 32} \X {0, 24})
    \cup (LocalDateTimeYears \X {0, 1, 12} \X {0, 1, 32} \X {0, 24} \X {0, 59})
    \cup (LocalDateTimeYears \X {0, 1, 12} \X {0, 1, 32} \X {0, 24} \X {0, 59}
          \X {0, 1})
    \cup (LocalDateTimeYears \X {0, 1, 12} \X {0, 1, 32} \X {0, 24} \X {0, 59}
          \X {0, 1} \X {0, 500})

\* the time values a holder of a Date sets: 1970-01-01 and 2019-01-01
CollaboratorTimes == {TimeValue(0, 0), TimeValue(17897, 0)}

\* host time zones: UTC and UTC-05:00
TzOffsets == {0, -18000000}

NoCall == [ctor |-> "none", args |-> <<>>, threw |-> FALSE, error |-> ""]

NoResult == [op |-> "none", str |-> "", nums |-> <<>>, buf |-> <<>>]

Init ==
    /\ obj = NoObject
    /\ call = NoCall
    /\ ret = NoResult
    /\ heap = <<>>
    /\ held = {}

\* nothing is alive: no value object, and no Date (only a LocalDateTime and
\* the code around it use Dates)
Idle == call.ctor = "none" /\ heap = <<>>

Constructed(ctor, args, r) ==
    /\ obj' = r.value
    /\ call' = [ctor |-> ctor, args |-> args, threw |-> r.threw, error |-> r.error]

NewLocalTime ==
    /\ Idle
    /\ \E args \in LocalTimeArgs :
           Constructed("LocalTime", args, LocalTime_constructor(args))
    /\ UNCHANGED <<ret, heap, held>>

LocalTimeGet ==
    /\ obj.type = "LocalTime"
    /\ ret' = [NoResult EXCEPT !.op = "LocalTime.get",
                  !.nums = <<LocalTime_getHours(obj), LocalTime_getMinutes(obj),
                             LocalTime_getSeconds(obj),
                             LocalTime_getMilliseconds(obj)>>]
    /\ UNCHANGED <<obj, call, heap, held>>

LocalTimeToString ==
    /\ obj.type = "LocalTime"
    /\ ret' = [NoResult EXCEPT !.op = "LocalTime.toString",
                               !.str = LocalTime_toString(obj)]
    /\ UNCHANGED <<obj, call, heap, held>>

NewLocalDate ==
    /\ Idle
    /\ \E args \in LocalDateArgs :
           Constructed("LocalDate", args, LocalDate_constructor(args))
    /\ UNCHANGED <<ret, heap, held>>

LocalDateFromOrdinal ==
    /\ Idle
    /\ \E ord \in OrdinalArgs :
           Constructed("LocalDate.fromOrdinal", <<ord>>, LocalDate_fromOrdinal(ord))
    /\ UNCHANGED <<ret, heap, held>>

LocalDateGet ==
    /\ obj.type = "LocalDate"
    /\ ret' = [NoResult EXCEPT !.op = "LocalDate.get",
                  !.nums = <<LocalDate_getFullYear(obj), LocalDate_getMonth(obj),
                             LocalDate_getDate(obj), LocalDate_toOrdinal(obj)>>]
    /\ UNCHANGED <<obj, call, heap, held>>

LocalDateToString ==
    /\ obj.type = "LocalDate"
    /\ ret' = [NoResult EXCEPT !.op = "LocalDate.toString",
                               !.str = LocalDate_toString(obj)]
    /\ UNCHANGED <<obj, call, heap, held>>

NewDuration ==
    /\ Idle
    /\ \E args \in DurationArgs :
           Constructed("Duration", args, Duration_constructor(args))
    /\ UNCHANGED <<ret, heap, held>>

DurationGet ==
    /\ obj.type = "Duration"
    /\ ret' = [NoResult EXCEPT !.op = "Duration.get",
                  !.nums = <<Duration_getMonths(obj), Duration_getDays(obj),
                             Duration_getMilliseconds(obj)>>]
    /\ UNCHANGED <<obj, call, heap, held>>

DurationToString ==
    /\ obj.type = "Duration"
    /\ ret' = [NoResult EXCEPT !.op = "Duration.toString",
                               !.str = Duration_toString(obj),
                               !.buf = Duration_buf(obj)]
    /\ UNCHANGED <<obj, call, heap, held>>

NewLocalDateTime ==
    /\ call.ctor = "none"
    /\ Len(heap) < MaxDates
    /\ \E args \in LocalDateTimeArgs :
           LET r == LocalDateTime_constructor(FieldArguments(args), heap)
           IN  /\ Constructed("LocalDateTime", args, Returned(r.this))
               /\ heap' = r.heap
    /\ UNCHANGED <<ret, held>>

\* a codec makes a Date of its own
CollaboratorNewDate ==
    /\ call.ctor = "none"
    /\ Len(heap) < MaxDates
    /\ \E t \in CollaboratorTimes : heap' = Append(heap, t)
    /\ held' = held \cup {Len(heap) + 1}
    /\ UNCHANGED <<obj, call, ret>>

\* new LocalDateTime(date, DATE_PRIVATE), by a codec, with a Date it holds
NewLocalDateTimePrivate ==
    /\ call.ctor = "none"
    /\ \E d \in held :
           LET r == LocalDateTime_constructor(PrivateArguments(d), heap)
           IN  /\ Constructed("LocalDateTime/" \o DATE_PRIVATE, <<d>>, Returned(r.this))
               /\ heap' = r.heap
    /\ UNCHANGED <<ret, held>>

\* date.setTime(t), by whoever holds a reference to the Date
CollaboratorSetTime ==
    /\ \E d \in held : \E t \in CollaboratorTimes : heap' = [heap EXCEPT ![d] = t]
    /\ UNCHANGED <<obj, call, ret, held>>

LocalDateTimeGet ==
    /\ obj.type = "LocalDateTime"
    /\ ret' = [NoResult EXCEPT !.op = "LocalDateTime.get",
                  !.nums = <<LocalDateTime_getFullYear(obj, heap),
                             LocalDateTime_getMonth(obj, heap),
                             LocalDateTime_getDate(obj, heap),
                             LocalDateTime_getHours(obj, heap),
                             LocalDateTime_getMinutes(obj, heap),
                             LocalDateTime_getSeconds(obj, heap),
                             LocalDateTime_getMilliseconds(obj, heap),
                             LocalDateTime_getDay(obj, heap),
                             LocalDateTime_getTime(obj, heap),
                             LocalDateTime_valueOf(obj, heap)>>]
    /\ UNCHANGED <<obj, call, heap, held>>

LocalDateTimeToString ==
    /\ obj.type = "LocalDateTime"
    /\ ret' = [NoResult EXCEPT !.op = "LocalDateTime.toString",
                               !.str = LocalDateTime_toString(obj, heap)]
    /\ UNCHANGED <<obj, call, heap, held>>

LocalDateTimeToISOString ==
    /\ obj.type = "LocalDateTime"
    /\ ret' = [NoResult EXCEPT !.op = "LocalDateTime.toISOString",
                               !.str = LocalDateTime_toISOString(obj, heap)]
    /\ UNCHANGED <<obj, call, heap, held>>

\* toDateTime() returns a new Date, which the caller then holds
LocalDateTimeToDateTime ==
    /\ obj.type = "LocalDateTime"
    /\ Len(heap) < MaxDates
    /\ \E tz \in TzOffsets :
           heap' = Append(heap, LocalDateTime_toDateTime(obj, heap, tz))
    /\ held' = held \cup {Len(heap) + 1}
    /\ ret' = [NoResult EXCEPT !.op = "LocalDateTime.toDateTime",
                               !.nums = <<Len(heap) + 1>>]
    /\ UNCHANGED <<obj, call>>

\* the value and every Date are dropped
Discard ==
    /\ call.ctor # "none" \/ heap # <<>>
    /\ obj' = NoObject
    /\ call' = NoCall
    /\ ret' = NoResult
    /\ heap' = <<>>
    /\ held' = {}

Next ==
    \/ NewLocalTime
    \/ LocalTimeGet
    \/ LocalTimeToString
    \/ NewLocalDate
    \/ LocalDateFromOrdinal
    \/ LocalDateGet
    \/ LocalDateToString
    \/ NewDuration
    \/ DurationGet
    \/ DurationToString
    \/ NewLocalDateTime
    \/ CollaboratorNewDate
    \/ NewLocalDateTimePrivate
    \/ CollaboratorSetTime
    \/ LocalDateTimeGet
    \/ LocalDateTimeToString
    \/ LocalDateTimeToISOString
    \/ LocalDateTimeToDateTime
    \/ Discard

Spec == Init /\ [][Next]_vars

(***************************************************************************)
(* Duration.toString(): the claims.  The expected values are computed from *)
(* the arguments of the call, on magnitudes, independently of the          *)
(* decomposition toString() makes.                                         *)
(***************************************************************************)
Sign(n) == IF n < 0 THEN -1 ELSE 1

\* the calendar units and clock fields of the Duration that is alive
DYears == Sign(obj._months) * (Abs(obj._months) \div 12)

DMonths == Sign(obj._months) * (Abs(obj._months) % 12)

DDays == obj._days

DHours == Abs(obj._milliseconds) \div 3600000

DMinutes == (Abs(obj._milliseconds) % 3600000) \div 60000

DSeconds == (Abs(obj._milliseconds) % 60000) \div 1000

DFracMs == Abs(obj._milliseconds) % 1000

DClockText ==
    PadStart(DHours, 2) \o ":" \o PadStart(DMinutes, 2) \o ":" \o PadStart(DSeconds, 2)

\* the fraction of a second: three digits, trailing zeros stripped
FractionText(ms) == "." \o DigitsToString(StripTrailingZeros(PadStartDigits(Digits(ms), 3)))

BufKinds == {ret.buf[i].kind : i \in 1..Len(ret.buf)}

UnitEmitted == BufKinds \cap {"year", "month", "day"} # {}

BufEntries(kind) == {i \in 1..Len(ret.buf) : ret.buf[i].kind = kind}

\* C7: toString() emits the clock segment HH:MM:SS (magnitudes, padded to two
\* digits) exactly when no calendar unit was emitted or a time component is
\* nonzero, and the fractional suffix exactly when fracMs # 0, right after the
\* clock segment; Duration(0, 0, 0) is "00:00:00", Duration(14, 0, 0) is
\* "1 year 2 months" and Duration(0, 0, 3661500) is "01:01:01.5".
C7_ClockSegment ==
    ret.op = "Duration.toString" =>
        /\ ("clock" \in BufKinds) <=>
               (~UnitEmitted \/ DHours # 0 \/ DMinutes # 0 \/ DSeconds # 0
                \/ DFracMs # 0)
        /\ ("frac" \in BufKinds) <=> (DFracMs # 0)
        /\ Cardinality(BufEntries("clock")) <= 1
        /\ \A i \in BufEntries("clock") :
               \E prefix \in {"", "-", " ", " -", " +"} :
                   ret.buf[i].text = prefix \o DClockText
        /\ \A i \in BufEntries("frac") :
               /\ i = Len(ret.buf)
               /\ i - 1 \in BufEntries("clock")
               /\ ret.buf[i].text = FractionText(DFracMs)
        /\ ret.str = JoinText(ret.buf)
        /\ (obj._months = 0 /\ obj._days = 0 /\ obj._milliseconds = 0)
               => ret.str = "00:00:00"
        /\ (obj._months = 14 /\ obj._days = 0 /\ obj._milliseconds = 0)
               => ret.str = "1 year 2 months"
        /\ (obj._months = 0 /\ obj._days = 0 /\ obj._milliseconds = 3661500)
               => ret.str = "01:01:01.5"

C7_Witness ==
    /\ ret.op = "Duration.toString"
    /\ call.args = <<14, 1, 3661500>>
    /\ ret.str = "1 year 2 months 1 day 01:01:01.5"

\* the entries of a calendar unit are as the rule plural(n) says: one entry
\* when n # 0, none when n = 0, written "<n> <name>" with "s" when plural(n)
UnitWritten(kind, name, n, plural) ==
    /\ Cardinality(BufEntries(kind)) = (IF n = 0 THEN 0 ELSE 1)
    /\ \A i \in BufEntries(kind) :
           \E prefix \in {"", " ", " +"} :
               ret.buf[i].text = prefix \o NumberToString(n) \o " " \o name
                                 \o (IF plural THEN "s" ELSE "")

\* C8, as claimed: each emitted calendar unit with value n is written in the
\* plural exactly when |n| # 1 ("-1 year", "-1 month", "-1 day").
C8_PluralByMagnitude ==
    ret.op = "Duration.toString" =>
        /\ UnitWritten("year", "year", DYears, Abs(DYears) # 1)
        /\ UnitWritten("month", "month", DMonths, Abs(DMonths) # 1)
        /\ UnitWritten("day", "day", DDays, Abs(DDays) # 1)

\* C8, amended: each emitted calendar unit with value n is written in the
\* plural exactly when n # 1; -1 is written in the plural ("-1 years",
\* "-1 months", "-1 days").
C8_PluralUnlessOne ==
    ret.op = "Duration.toString" =>
        /\ UnitWritten("year", "year", DYears, DYears # 1)
        /\ UnitWritten("month", "month", DMonths, DMonths # 1)
        /\ UnitWritten("day", "day", DDays, DDays # 1)

C8_Witness ==
    /\ ret.op = "Duration.toString"
    /\ call.args = <<-13, -1>>
    /\ ret.str = "-1 years -1 months -1 days"

\* the segments the claims speak of, in order: each with its sign and the
\* text of its magnitude
ExpectedSegments ==
    LET unit(n, name) ==
            [neg  |-> n < 0,
             body |-> NumberToString(Abs(n)) \o " " \o name
                      \o (IF n # 1 THEN "s" ELSE "")]
        units ==
            (IF DYears # 0 THEN <<unit(DYears, "year")>> ELSE <<>>)
            \o (IF DMonths # 0 THEN <<unit(DMonths, "month")>> ELSE <<>>)
            \o (IF DDays # 0 THEN <<unit(DDays, "day")>> ELSE <<>>)
        clock ==
            [neg  |-> obj._milliseconds < 0,
             body |-> DClockText
                      \o (IF DFracMs # 0 THEN FractionText(DFracMs) ELSE "")]
    IN  IF units = <<>> \/ obj._milliseconds # 0
        THEN Append(units, clock)
        ELSE units

RECURSIVE SignedJoin(_, _)
\* segs[i..] joined: one space before every segment but the first, "-" on a
\* negative segment, "+" on a non-negative one that follows a negative one
SignedJoin(segs, i) ==
    IF i > Len(segs) THEN ""
    ELSE (IF i > 1 THEN " " ELSE "")
         \o (IF segs[i].neg THEN "-"
             ELSE IF i > 1 /\ segs[i - 1].neg THEN "+"
             ELSE "")
         \o segs[i].body
         \o SignedJoin(segs, i + 1)

\* C9: the segments (years, months, days, clock) are separated by exactly one
\* space; a segment after the first carries "+" exactly when the previous
\* emitted segment was negative and it is not; a negative segment carries "-";
\* any other segment carries no sign.
C9_SignMarkers ==
    ret.op = "Duration.toString" => ret.str = SignedJoin(ExpectedSegments, 1)

C9_Witness ==
    /\ ret.op = "Duration.toString"
    /\ call.args = <<-14, 1, -1000>>
    /\ ret.str = "-1 years -2 months +1 day -00:00:01"

(***************************************************************************)
(* LocalTime: the claims.                                                  *)
(***************************************************************************)
\* HH:MM:SS[.fraction]: the fraction is the three digits of the milliseconds
\* with the trailing zeros stripped, so that it reads back as the same value
CanonicalTime(hours, minutes, seconds, milliseconds) ==
    PadStart(hours, 2) \o ":" \o PadStart(minutes, 2) \o ":" \o PadStart(seconds, 2)
    \o (IF milliseconds # 0 THEN FractionText(milliseconds) ELSE "")

\* C1: toString() of a valid LocalTime is HH:MM:SS, followed only when
\* milliseconds # 0 by "." and the three-digit fraction with trailing zeros
\* stripped, and two LocalTime values that differ in milliseconds (5, 50, 500)
\* never have the same string.
C1_ToStringRoundTrips ==
    ret.op = "LocalTime.toString" =>
        /\ ret.str = CanonicalTime(obj._hours, obj._minutes, obj._seconds,
                                   obj._milliseconds)
        /\ \A ms \in {0, 5, 50, 500, 120, 999} \ {obj._milliseconds} :
               LocalTime_toString([obj EXCEPT !._milliseconds = ms]) # ret.str

\* the fields in the order the constructor checks them, with their upper bounds
LocalTimeFields(args) ==
    <<[name |-> "hours", value |-> args[1], max |-> 23],
      [name |-> "minutes", value |-> Arg(args, 2, 0), max |-> 59],
      [name |-> "seconds", value |-> Arg(args, 3, 0), max |-> 59],
      [name |-> "milliseconds", value |-> Arg(args, 4, 0), max |-> 999]>>

OutOfRange(f) == f.value < 0 \/ f.value > f.max

RangeError(f) ==
    "invalid number of " \o f.name \o " " \o NumberToString(f.value)
    \o ": expected a value in 0-" \o NumberToString(f.max) \o " range"

\* C5: the LocalTime constructor succeeds exactly when every field is in its
\* range (hours 0-23, minutes 0-59, seconds 0-59, milliseconds 0-999);
\* otherwise it throws, builds no value, and the error names the first field
\* out of range, in the order hours, minutes, seconds, milliseconds, and its
\* range.  On success the getters return the arguments unchanged.
C5_LocalTimeValidation ==
    call.ctor = "LocalTime" =>
        LET fs  == LocalTimeFields(call.args)
            bad == {i \in 1..4 : OutOfRange(fs[i])}
        IN  /\ call.threw <=> (bad # {})
            /\ call.threw =>
                   /\ obj = NoObject
                   /\ \E i \in bad :
                          /\ \A j \in bad : i <= j
                          /\ call.error = RangeError(fs[i])
            /\ ~call.threw =>
                   /\ obj.type = "LocalTime"
                   /\ LocalTime_getHours(obj) = fs[1].value
                   /\ LocalTime_getMinutes(obj) = fs[2].value
                   /\ LocalTime_getSeconds(obj) = fs[3].value
                   /\ LocalTime_getMilliseconds(obj) = fs[4].value
                   /\ (ret.op = "LocalTime.get" =>
                           ret.nums = <<fs[1].value, fs[2].value, fs[3].value,
                                        fs[4].value>>)

C5_Witness ==
    /\ call.ctor = "LocalTime"
    /\ call.args = <<23, 60, -1, 1000>>
    /\ call.threw
    /\ call.error = "invalid number of minutes 60: expected a value in 0-59 range"
    /\ obj = NoObject

(***************************************************************************)
(* LocalDate: the claims.                                                  *)
(***************************************************************************)
\* the days of a month of the Gregorian calendar, the month counted from 0
GregorianDays(year, month0) ==
    IF month0 = 1
    THEN (IF year % 400 = 0 \/ (year % 4 = 0 /\ year % 100 # 0) THEN 29 ELSE 28)
    ELSE IF month0 \in {3, 5, 8, 10} THEN 30
    ELSE 31

\* C6: the LocalDate constructor succeeds exactly when 0 <= month <= 11 and
\* 1 <= day <= the days of that month of that year (leap years honoured);
\* otherwise it throws an error naming the month index or the day with its
\* range 1..maxDays.  Every LocalDate that exists, also one built by
\* fromOrdinal, has a month in 0..11 and a day within its month.
C6_LocalDateValidation ==
    /\ call.ctor = "LocalDate" =>
           LET year  == call.args[1]
               month == Arg(call.args, 2, 0)
               day   == Arg(call.args, 3, 1)
               monthOk == 0 <= month /\ month <= 11
               dayOk   == 1 <= day /\ day <= GregorianDays(year, month)
           IN  /\ ~call.threw <=> (monthOk /\ dayOk)
               /\ ~call.threw => obj = [type |-> "LocalDate", _year |-> year,
                                        _month |-> month, _day |-> day]
               /\ call.threw => obj = NoObject
               /\ ~monthOk =>
                      call.error = "invalid monthIndex " \o NumberToString(month)
                                   \o ": expected a value in 0-11 range"
               /\ (monthOk /\ ~dayOk) =>
                      call.error = "invalid number of days " \o NumberToString(day)
                                   \o ": expected a value in 1.."
                                   \o NumberToString(GregorianDays(year, month))
                                   \o " range"
    /\ call.ctor = "LocalDate.fromOrdinal" => ~call.threw
    /\ obj.type = "LocalDate" =>
           /\ 0 <= obj._month /\ obj._month <= 11
           /\ 1 <= obj._day /\ obj._day <= GregorianDays(obj._year, obj._month)

C6_Witness ==
    /\ call.ctor = "LocalDate"
    /\ call.args = <<2019, 1, 30>>
    /\ call.threw
    /\ call.error = "invalid number of days 30: expected a value in 1..28 range"

(***************************************************************************)
(* LocalDateTime: the claims.                                              *)
(***************************************************************************)
\* YYYY-MM-DDTHH:MM:SS[.fraction] of the wall-clock fields the getters return
CanonicalDateTime(this, h) ==
    PadStart(LocalDateTime_getFullYear(this, h), 4)
    \o "-" \o PadStart(LocalDateTime_getMonth(this, h) + 1, 2)
    \o "-" \o PadStart(LocalDateTime_getDate(this, h), 2)
    \o "T" \o CanonicalTime(LocalDateTime_getHours(this, h),
                            LocalDateTime_getMinutes(this, h),
                            LocalDateTime_getSeconds(this, h),
                            LocalDateTime_getMilliseconds(this, h))

\* the value is as the last call of a method left it (no Date was touched
\* since)
FreshResult(op) == ret.op = op /\ ~(obj._date \in held)

\* C2: LocalDateTime.toString() returns the canonical form
\* YYYY-MM-DDTHH:MM:SS[.fraction] of the UTC wall-clock fields, with no zone
\* marker; LocalDateTime(2019, 0, 1, 0, 0, 0, 0).toString() is
\* "2019-01-01T00:00:00".
C2_ToStringCanonical ==
    (obj.type = "LocalDateTime" /\ FreshResult("LocalDateTime.toString")) =>
        /\ ret.str = CanonicalDateTime(obj, heap)
        /\ call.args = <<2019, 0, 1, 0, 0, 0, 0>> => ret.str = "2019-01-01T00:00:00"

\* the calls of the public constructor with all seven fields
SevenFieldArgs == {a \in LocalDateTimeArgs : Len(a) = 7}

\* the instant new LocalDateTime(...fields) stores
InstantOf(fields) ==
    LET r == LocalDateTime_constructor(FieldArguments(fields), <<>>)
    IN  LocalDateTime_getTime(r.this, r.heap)

\* C3: two LocalDateTime instances built by the public constructor from
\* different tuples of seven fields have different instants (and from the same
\* tuple, the same instant): the constructor is injective on the tuples it
\* accepts.
C3_ConstructorInjective ==
    (call.ctor = "LocalDateTime" /\ Len(call.args) = 7) =>
        \A other \in SevenFieldArgs :
            (InstantOf(other) = LocalDateTime_getTime(obj, heap))
                <=> (other = call.args)

\* C4: a field the constructor is called without defaults to its minimum:
\* LocalDateTime(year) and LocalDateTime(year, month) are the first day of that
\* year or month at 00:00:00.000.  (Stated for a four-digit year and a month
\* in 0..11.)
C4_DefaultsAreMinimum ==
    (/\ call.ctor = "LocalDateTime"
     /\ Len(call.args) <= 2
     /\ call.args[1] > 99
     /\ Arg(call.args, 2, 0) \in 0..11) =>
        /\ LocalDateTime_getFullYear(obj, heap) = call.args[1]
        /\ LocalDateTime_getMonth(obj, heap) = Arg(call.args, 2, 0)
        /\ LocalDateTime_getDate(obj, heap) = 1
        /\ LocalDateTime_getHours(obj, heap) = 0
        /\ LocalDateTime_getMinutes(obj, heap) = 0
        /\ LocalDateTime_getSeconds(obj, heap) = 0
        /\ LocalDateTime_getMilliseconds(obj, heap) = 0

\* what the accessors of a LocalDateTime return
Observed(this, h) ==
    <<LocalDateTime_getTime(this, h), LocalDateTime_getFullYear(this, h),
      LocalDateTime_getMonth(this, h), LocalDateTime_getDate(this, h),
      LocalDateTime_getHours(this, h), LocalDateTime_getMinutes(this, h),
      LocalDateTime_getSeconds(this, h), LocalDateTime_getMilliseconds(this, h),
      LocalDateTime_getDay(this, h)>>

\* C10: a LocalDateTime never changes after construction: whatever happens
\* next, also to the Date handed to the privileged construction path,
\* getTime() and the field accessors of the instance return what they returned
\* before.
C10_Immutable ==
    [][(obj.type = "LocalDateTime" /\ obj' = obj)
           => Observed(obj, heap') = Observed(obj, heap)]_vars

====
